---- MODULE Spec2Model ----
(***************************************************************************)
(* AcquiSuite ingest worker (src/src/index.js): the byte scanner, the      *)
(* multipart extractors and the fetch handler, as state machines.          *)
(*                                                                         *)
(* Bytes and characters are their numeric codes; a JavaScript string or a  *)
(* Uint8Array is a sequence of codes (0-based in the source, 1-based       *)
(* here: At(u8, i) reads the source's u8[i]).                              *)
(***************************************************************************)
EXTENDS Integers, Sequences, FiniteSets, TLC

\* ------------------------------------------------------------------------
\* Bounds of the model
\* ------------------------------------------------------------------------
MaxHay == 4
MaxNeedle == 2
MaxParts == 2
MaxUploadParts == 2

\* ------------------------------------------------------------------------
\* Character codes
\* ------------------------------------------------------------------------
CR == 13
LF == 10
DASH == 45
QUOTE == 34
SLASH == 47
COLON == 58
REPLACEMENT == 65533

Min(a, b) == IF a < b THEN a ELSE b
Max(a, b) == IF a > b THEN a ELSE b

\* the value of an out-of-range typed-array read (undefined), unequal to every byte
Undefined == -1

At(u8, i) == IF i >= 0 /\ i < Len(u8) THEN u8[i + 1] ELSE Undefined

\* Uint8Array.prototype.slice / String.prototype.slice for 0 <= a
Slice(s, a, b) == SubSeq(s, Min(a, Len(s)) + 1, Min(b, Len(s)))

\* enc(): TextEncoder on the ASCII strings the source encodes is the identity on codes
enc(s) == s

\* dec(): non-fatal UTF-8 decoding; an ASCII byte is its own code point, a byte
\* that can neither start nor continue a sequence (0xF8..0xFF) becomes U+FFFD
dec(u8) == [k \in 1..Len(u8) |-> IF u8[k] < 128 THEN u8[k] ELSE REPLACEMENT]

ToLower(c) == IF c >= 65 /\ c <= 90 THEN c + 32 ELSE c
toLowerCase(s) == [k \in 1..Len(s) |-> ToLower(s[k])]

\* JavaScript \s
IsSpace(c) ==
    \/ c \in {9, 10, 11, 12, 13, 32, 160, 5760, 8232, 8233, 8239, 8287, 12288, 65279}
    \/ (c >= 8192 /\ c <= 8202)

\* ------------------------------------------------------------------------
\* ByteScanner
\* ------------------------------------------------------------------------
MatchesAt(haystack, needle, i) ==
    \A j \in 0..(Len(needle) - 1) : At(haystack, i + j) = needle[j + 1]

RECURSIVE indexOfLoop(_, _, _)
indexOfLoop(haystack, needle, i) ==
    IF i > Len(haystack) - Len(needle) THEN -1
    ELSE IF MatchesAt(haystack, needle, i) THEN i
    ELSE indexOfLoop(haystack, needle, i + 1)

indexOfSubarray(haystack, needle, fromIndex) == indexOfLoop(haystack, needle, fromIndex)

\* the loop with i > 0 for i >= 0
RECURSIVE lastIndexOfLoop_skipsZero(_, _, _)
lastIndexOfLoop_skipsZero(haystack, needle, i) ==
    IF i <= 0 THEN -1
    ELSE IF MatchesAt(haystack, needle, i) THEN i
    ELSE lastIndexOfLoop_skipsZero(haystack, needle, i - 1)

RECURSIVE lastIndexOfLoop(_, _, _)
lastIndexOfLoop(haystack, needle, i) ==
    IF i < 0 THEN -1
    ELSE IF MatchesAt(haystack, needle, i) THEN i
    ELSE lastIndexOfLoop(haystack, needle, i - 1)

lastIndexMaxStart(haystack, needle, beforeIndex) ==
    Min(beforeIndex, Len(haystack) - Len(needle))

lastIndexOfSubarray(haystack, needle, beforeIndex) ==
    lastIndexOfLoop(haystack, needle, lastIndexMaxStart(haystack, needle, beforeIndex))

skipCRLF(u8, i) == IF At(u8, i) = CR /\ At(u8, i + 1) = LF THEN i + 2 ELSE i

\* ------------------------------------------------------------------------
\* PartHeaderParser: the two regular expressions of the source, on decoded text
\* ------------------------------------------------------------------------
\* name="  and  filename="  (lower case; the expressions carry the i flag)
NameAttr == <<110, 97, 109, 101, 61, QUOTE>>
FilenameAttr == <<102, 105, 108, 101>> \o NameAttr

AttrAt(text, attr, p) ==
    \A j \in 0..(Len(attr) - 1) : ToLower(At(text, p + j)) = attr[j + 1]

\* /attr([^"]+)"/i : leftmost position where attr is followed by at least one
\* character other than a quote and then a quote; the capture, or <<>> for no match
RECURSIVE regexAttrFrom(_, _, _)
regexAttrFrom(text, attr, p) ==
    IF p > Len(text) - Len(attr) THEN <<>>
    ELSE IF AttrAt(text, attr, p)
            /\ indexOfLoop(text, <<QUOTE>>, p + Len(attr)) > p + Len(attr)
         THEN Slice(text, p + Len(attr), indexOfLoop(text, <<QUOTE>>, p + Len(attr)))
         ELSE regexAttrFrom(text, attr, p + 1)

regexAttr(text, attr) == regexAttrFrom(text, attr, 0)

\* s.split("/").pop()
RECURSIVE lastSegmentFrom(_, _)
lastSegmentFrom(s, k) ==
    IF k = 0 THEN s
    ELSE IF s[k] = SLASH THEN SubSeq(s, k + 1, Len(s))
    ELSE lastSegmentFrom(s, k - 1)

splitPop(s) == lastSegmentFrom(s, Len(s))

\* filename = fnMatch[1], without split("/").pop()
headerFilename_noBasename(headersText) == regexAttr(headersText, FilenameAttr)

\* let filename = ""; if (fnMatch && fnMatch[1]) filename = fnMatch[1].split("/").pop()
headerFilename(headersText) == splitPop(regexAttr(headersText, FilenameAttr))

\* nameMatch && nameMatch[1] ? nameMatch[1] : ""
headerFieldName(headersText) == regexAttr(headersText, NameAttr)

\* s.replace(/^\s+|\s+$/g, "")
RECURSIVE trimLeft(_)
trimLeft(s) == IF s # <<>> /\ IsSpace(Head(s)) THEN trimLeft(Tail(s)) ELSE s

RECURSIVE trimRight(_)
trimRight(s) ==
    IF s # <<>> /\ IsSpace(s[Len(s)]) THEN trimRight(SubSeq(s, 1, Len(s) - 1)) ELSE s

\* only /^\s+/
trim_leftOnly(s) == trimLeft(s)

trim(s) == trimRight(trimLeft(s))

\* ------------------------------------------------------------------------
\* Named extractors
\* ------------------------------------------------------------------------
HeaderEndMarker == <<CR, LF, CR, LF>>
Delim(boundary) == <<DASH, DASH>> \o boundary
NextBoundaryNeedle(boundary) == <<CR, LF, DASH, DASH>> \o boundary
HeaderNeedle(fieldName) == NameAttr \o fieldName \o <<QUOTE>>

\* the null of extractMultipartFilePart
NoFilePart == [found |-> FALSE, filename |-> <<>>, fileBytes |-> <<>>]

\* const v = e; followed by the statements F(v)
With(e, F(_)) == CHOOSE r \in {F(v) : v \in {e}} : TRUE

\* with the fallback of extractAllMultipartFileParts: contentEnd = bodyU8.length
extractMultipartFilePart_toEnd(bodyU8, boundary, fieldName) ==
    With(indexOfSubarray(bodyU8, enc(HeaderNeedle(fieldName)), 0), LAMBDA namePos :
    IF namePos = -1 THEN NoFilePart ELSE
    With(lastIndexOfSubarray(bodyU8, enc(Delim(boundary)), namePos), LAMBDA partStart :
    IF partStart = -1 THEN NoFilePart ELSE
    With(skipCRLF(bodyU8, partStart + Len(enc(Delim(boundary)))), LAMBDA headersStart :
    With(indexOfSubarray(bodyU8, enc(HeaderEndMarker), headersStart), LAMBDA headersEnd :
    IF headersEnd = -1 THEN NoFilePart ELSE
    With(dec(Slice(bodyU8, headersStart, headersEnd)), LAMBDA headersText :
    With(headerFilename(headersText), LAMBDA filename :
    With(headersEnd + Len(enc(HeaderEndMarker)), LAMBDA contentStart :
    With(indexOfSubarray(bodyU8, enc(NextBoundaryNeedle(boundary)), contentStart),
         LAMBDA contentEnd :
    [found |-> TRUE, filename |-> filename,
     fileBytes |-> Slice(bodyU8, contentStart,
                         IF contentEnd = -1 THEN Len(bodyU8) ELSE contentEnd)]))))))))

\* with filename = fnMatch[1], the path kept
extractMultipartFilePart_rawFilename(bodyU8, boundary, fieldName) ==
    With(indexOfSubarray(bodyU8, enc(HeaderNeedle(fieldName)), 0), LAMBDA namePos :
    IF namePos = -1 THEN NoFilePart ELSE
    With(lastIndexOfSubarray(bodyU8, enc(Delim(boundary)), namePos), LAMBDA partStart :
    IF partStart = -1 THEN NoFilePart ELSE
    With(skipCRLF(bodyU8, partStart + Len(enc(Delim(boundary)))), LAMBDA headersStart :
    With(indexOfSubarray(bodyU8, enc(HeaderEndMarker), headersStart), LAMBDA headersEnd :
    IF headersEnd = -1 THEN NoFilePart ELSE
    With(dec(Slice(bodyU8, headersStart, headersEnd)), LAMBDA headersText :
    With(regexAttr(headersText, FilenameAttr), LAMBDA filename :
    With(headersEnd + Len(enc(HeaderEndMarker)), LAMBDA contentStart :
    With(indexOfSubarray(bodyU8, enc(NextBoundaryNeedle(boundary)), contentStart),
         LAMBDA contentEnd :
    IF contentEnd = -1 THEN NoFilePart ELSE
    [found |-> TRUE, filename |-> filename,
     fileBytes |-> Slice(bodyU8, contentStart, contentEnd)]))))))))

extractMultipartFilePart(bodyU8, boundary, fieldName) ==
    With(indexOfSubarray(bodyU8, enc(HeaderNeedle(fieldName)), 0), LAMBDA namePos :
    IF namePos = -1 THEN NoFilePart ELSE
    With(lastIndexOfSubarray(bodyU8, enc(Delim(boundary)), namePos), LAMBDA partStart :
    IF partStart = -1 THEN NoFilePart ELSE
    With(skipCRLF(bodyU8, partStart + Len(enc(Delim(boundary)))), LAMBDA headersStart :
    With(indexOfSubarray(bodyU8, enc(HeaderEndMarker), headersStart), LAMBDA headersEnd :
    IF headersEnd = -1 THEN NoFilePart ELSE
    With(dec(Slice(bodyU8, headersStart, headersEnd)), LAMBDA headersText :
    With(headerFilename(headersText), LAMBDA filename :
    With(headersEnd + Len(enc(HeaderEndMarker)), LAMBDA contentStart :
    With(indexOfSubarray(bodyU8, enc(NextBoundaryNeedle(boundary)), contentStart),
         LAMBDA contentEnd :
    IF contentEnd = -1 THEN NoFilePart ELSE
    [found |-> TRUE, filename |-> filename,
     fileBytes |-> Slice(bodyU8, contentStart, contentEnd)]))))))))

\* with the content running to the end of the buffer when no boundary follows
extractMultipartTextField_toEnd(bodyU8, boundary, fieldName) ==
    With(indexOfSubarray(bodyU8, enc(HeaderNeedle(fieldName)), 0), LAMBDA namePos :
    IF namePos = -1 THEN <<>> ELSE
    With(lastIndexOfSubarray(bodyU8, enc(Delim(boundary)), namePos), LAMBDA partStart :
    IF partStart = -1 THEN <<>> ELSE
    With(skipCRLF(bodyU8, partStart + Len(enc(Delim(boundary)))), LAMBDA headersStart :
    With(indexOfSubarray(bodyU8, enc(HeaderEndMarker), headersStart), LAMBDA headersEnd :
    IF headersEnd = -1 THEN <<>> ELSE
    With(headersEnd + Len(enc(HeaderEndMarker)), LAMBDA contentStart :
    With(indexOfSubarray(bodyU8, enc(NextBoundaryNeedle(boundary)), contentStart),
         LAMBDA contentEnd :
    With(dec(Slice(bodyU8, contentStart,
                   IF contentEnd = -1 THEN Len(bodyU8) ELSE contentEnd)),
         LAMBDA text : trim(text))))))))

extractMultipartTextField(bodyU8, boundary, fieldName) ==
    With(indexOfSubarray(bodyU8, enc(HeaderNeedle(fieldName)), 0), LAMBDA namePos :
    IF namePos = -1 THEN <<>> ELSE
    With(lastIndexOfSubarray(bodyU8, enc(Delim(boundary)), namePos), LAMBDA partStart :
    IF partStart = -1 THEN <<>> ELSE
    With(skipCRLF(bodyU8, partStart + Len(enc(Delim(boundary)))), LAMBDA headersStart :
    With(indexOfSubarray(bodyU8, enc(HeaderEndMarker), headersStart), LAMBDA headersEnd :
    IF headersEnd = -1 THEN <<>> ELSE
    With(headersEnd + Len(enc(HeaderEndMarker)), LAMBDA contentStart :
    With(indexOfSubarray(bodyU8, enc(NextBoundaryNeedle(boundary)), contentStart),
         LAMBDA contentEnd :
    IF contentEnd = -1 THEN <<>> ELSE
    With(dec(Slice(bodyU8, contentStart, contentEnd)), LAMBDA text : trim(text))))))))

\* ------------------------------------------------------------------------
\* AllPartsExtractor: one iteration of the while loop, and the whole loop
\* ------------------------------------------------------------------------
NoIteration ==
    [exit |-> "none", partStart |-> -1, headersStart |-> -1, headersEnd |-> -1,
     contentStart |-> -1, contentEnd |-> -1, push |-> FALSE,
     part |-> [fieldName |-> <<>>, filename |-> <<>>, fileBytes |-> <<>>]]

\* without the fallback to bodyU8.length
contentEndOrLength_noFallback(bodyU8, found) == found

\* if (contentEnd === -1) contentEnd = bodyU8.length
contentEndOrLength(bodyU8, found) == IF found = -1 THEN Len(bodyU8) ELSE found

\* exit: "none" (the iteration ran to searchFrom = contentEnd) or the break taken
scanIteration(bodyU8, boundary, searchFrom) ==
    With(indexOfSubarray(bodyU8, enc(Delim(boundary)), searchFrom), LAMBDA partStart :
    IF partStart = -1 THEN [NoIteration EXCEPT !.exit = "noDelimiter"] ELSE
    With(partStart + Len(enc(Delim(boundary))), LAMBDA afterBoundary :
    IF At(bodyU8, afterBoundary) = DASH /\ At(bodyU8, afterBoundary + 1) = DASH
    THEN [NoIteration EXCEPT !.exit = "closingMarker", !.partStart = partStart] ELSE
    With(skipCRLF(bodyU8, afterBoundary), LAMBDA headersStart :
    With(indexOfSubarray(bodyU8, enc(HeaderEndMarker), headersStart), LAMBDA headersEnd :
    IF headersEnd = -1
    THEN [NoIteration EXCEPT !.exit = "noHeaderEnd", !.partStart = partStart,
                             !.headersStart = headersStart] ELSE
    With(dec(Slice(bodyU8, headersStart, headersEnd)), LAMBDA headersText :
    With(headerFieldName(headersText), LAMBDA fieldName :
    With(headerFilename(headersText), LAMBDA filename :
    With(headersEnd + Len(enc(HeaderEndMarker)), LAMBDA contentStart :
    With(contentEndOrLength(bodyU8,
             indexOfSubarray(bodyU8, enc(NextBoundaryNeedle(boundary)), contentStart)),
         LAMBDA contentEnd :
    [exit |-> "none", partStart |-> partStart, headersStart |-> headersStart,
     headersEnd |-> headersEnd, contentStart |-> contentStart,
     contentEnd |-> contentEnd, push |-> filename # <<>>,
     part |-> [fieldName |-> fieldName, filename |-> filename,
               fileBytes |-> Slice(bodyU8, contentStart, contentEnd)]])))))))))

RECURSIVE scanLoop(_, _, _, _)
scanLoop(bodyU8, boundary, searchFrom, parts) ==
    With(scanIteration(bodyU8, boundary, searchFrom), LAMBDA it :
    IF it.exit # "none" THEN parts
    ELSE scanLoop(bodyU8, boundary, it.contentEnd,
                  IF it.push THEN Append(parts, it.part) ELSE parts))

extractAllMultipartFileParts(bodyU8, boundary) == scanLoop(bodyU8, boundary, 0, <<>>)

\* name.includes("status") || fn.includes("status") || fn.endsWith(".txt")
StatusWord == <<115, 116, 97, 116, 117, 115>>
DotTxt == <<46, 116, 120, 116>>
includes(s, sub) == indexOfSubarray(s, sub, 0) # -1
endsWith(s, suffix) ==
    Len(s) >= Len(suffix) /\ SubSeq(s, Len(s) - Len(suffix) + 1, Len(s)) = suffix

isStatusPart(part) ==
    LET name == toLowerCase(part.fieldName)
        fn == toLowerCase(part.filename)
    IN  includes(name, StatusWord) \/ includes(fn, StatusWord) \/ endsWith(fn, DotTxt)

\* String(s || "").trim().replace(/[^a-zA-Z0-9._-]/g, "_").slice(0, 180)
SafeKeyMax == 180
IsSafeChar(c) ==
    \/ (c >= 97 /\ c <= 122) \/ (c >= 65 /\ c <= 90) \/ (c >= 48 /\ c <= 57)
    \/ c \in {46, 95, 45}
safeKey(s) ==
    LET t == trim(s)
    IN  Slice([k \in 1..Len(t) |-> IF IsSafeChar(t[k]) THEN t[k] ELSE 95], 0, SafeKeyMax)

\* ------------------------------------------------------------------------
\* State
\* ------------------------------------------------------------------------
VARIABLES
    probe,       \* ByteScanner call: haystack, needle, index, operation, result
    parts,       \* the parts the sender put into the body (ground truth)
    shape,       \* how the sender's body ends or starts (closed, or a truncation)
    body,        \* bodyU8
    boundary,    \* the boundary token
    scanState,   \* extractAllMultipartFileParts: position in the while loop
    searchFrom,  \* extractAllMultipartFileParts: let searchFrom
    allParts,    \* extractAllMultipartFileParts: const parts / fetch: allParts
    query,       \* fieldName of the last named extraction
    textRes,     \* result of extractMultipartTextField(body, boundary, query)
    fileRes,     \* result of extractMultipartFilePart(body, boundary, query)
    env,         \* env.API_KEY, env.BUCKET
    request,     \* the request being handled
    pc,          \* fetch: position in the handler
    filePart,    \* fetch: const filePart
    cursor,      \* fetch: position of the for loop in allParts
    meta,        \* fetch: serial, filetime, loopname
    puts,        \* the env.BUCKET.put calls made, in order
    response     \* the Response returned

vars == <<probe, parts, shape, body, boundary, scanState, searchFrom, allParts, query,
          textRes, fileRes, env, request, pc, filePart, cursor, meta, puts, response>>

scannerVars == <<probe>>
parserVars == <<parts, shape, scanState, searchFrom, query, textRes, fileRes>>
fetchVars == <<env, request, pc, filePart, cursor, meta, puts, response>>

\* ------------------------------------------------------------------------
\* The sender: multipart bodies built from parts
\* ------------------------------------------------------------------------
CRLF == <<CR, LF>>
\* form-data; (the end of the Content-Disposition header before its attributes)
Disposition == <<102, 111, 114, 109, 45, 100, 97, 116, 97, 59, 32>>
NameA == <<65>>
NameB == <<66>>
\* b7
Boundary == <<98, 55>>

\* white space, a byte that is not UTF-8, and the delimiter without a CRLF before it
BoundaryLikeContent == <<32, 255>> \o Delim(Boundary)
BinaryContent == <<32, 255, 0>>

TextPart(n, c) == [name |-> n, filename |-> <<>>, content |-> c, nameFirst |-> TRUE]
FilePart(n, f, c, nameFirst) ==
    [name |-> n, filename |-> f, content |-> c, nameFirst |-> nameFirst]

\* text values: one with surrounding white space, x, and one holding name="A";
\* file names: f, B (the name of another field), d/ (a directory), d/f and A
\* after the name attribute or before it
PartOptions ==
    {TextPart(NameA, <<32, 120, LF>>), TextPart(NameB, <<120>>),
     TextPart(NameB, NameAttr \o NameA \o <<QUOTE>>),
     FilePart(NameA, <<102>>, BoundaryLikeContent, TRUE),
     FilePart(NameA, NameB, BinaryContent, TRUE),
     FilePart(NameA, <<100, SLASH>>, BinaryContent, TRUE),
     FilePart(NameB, <<102>>, BoundaryLikeContent, TRUE),
     FilePart(NameB, <<100, SLASH, 102>>, BinaryContent, FALSE),
     FilePart(NameB, NameA, BinaryContent, FALSE)}

Shapes == {"closed", "unterminated", "headless", "undelimited"}

PartHeader(p) ==
    LET nameAttr == NameAttr \o p.name \o <<QUOTE>>
        fileAttr == FilenameAttr \o p.filename \o <<QUOTE>>
    IN  Disposition \o
        (IF p.filename = <<>> THEN nameAttr
         ELSE IF p.nameFirst THEN nameAttr \o <<59, 32>> \o fileAttr
         ELSE fileAttr \o <<59, 32>> \o nameAttr)

PartHead(p, b) == Delim(b) \o CRLF \o PartHeader(p)
PartBytes(p, b) == PartHead(p, b) \o HeaderEndMarker \o p.content

RECURSIVE JoinParts(_, _)
JoinParts(ps, b) ==
    IF ps = <<>> THEN <<>>
    ELSE IF Len(ps) = 1 THEN PartBytes(ps[1], b)
    ELSE PartBytes(ps[1], b) \o CRLF \o JoinParts(Tail(ps), b)

ClosingLine(b) == CRLF \o Delim(b) \o <<DASH, DASH>> \o CRLF

BuildBody(ps, sh, b) ==
    LET closed == JoinParts(ps, b) \o ClosingLine(b)
        n == Len(ps)
    IN  CASE sh = "closed" -> closed
          [] sh = "unterminated" -> JoinParts(ps, b)
          [] sh = "headless" ->
                (IF n = 1 THEN <<>> ELSE JoinParts(SubSeq(ps, 1, n - 1), b) \o CRLF)
                \o PartHead(ps[n], b) \o CRLF
          [] sh = "undelimited" -> SubSeq(closed, Len(Delim(b)) + 3, Len(closed))

PartSeqs == UNION {[1..n -> PartOptions] : n \in 1..MaxParts}

\* ------------------------------------------------------------------------
\* Idle values of the variables a specification does not use
\* ------------------------------------------------------------------------
NoProbe == [op |-> "none", haystack |-> <<>>, needle |-> <<>>, index |-> 0, result |-> -1]
NoEnv == [API_KEY |-> <<>>, BUCKET |-> FALSE]
NoRequest == [method |-> "GET"]
NoMeta == [serial |-> <<>>, filetime |-> <<>>, loopname |-> <<>>]
NoResponse == [status |-> 0, body |-> "none"]

ScannerIdle == probe = NoProbe
ParserIdle ==
    /\ parts = <<>> /\ shape = "closed"
    /\ scanState = "Terminal" /\ searchFrom = 0
    /\ query = <<>> /\ textRes = <<>> /\ fileRes = NoFilePart
FetchIdle ==
    /\ env = NoEnv /\ request = NoRequest /\ pc = "idle" /\ filePart = NoFilePart
    /\ cursor = 0 /\ meta = NoMeta /\ puts = <<>> /\ response = NoResponse

\* ------------------------------------------------------------------------
\* Specification of the multipart extractors
\* ------------------------------------------------------------------------
InitParse ==
    /\ parts \in PartSeqs
    /\ shape \in Shapes
    /\ boundary = Boundary
    /\ body = BuildBody(parts, shape, boundary)
    /\ scanState = "SeekDelimiter"
    /\ searchFrom = 0
    /\ allParts = <<>>
    /\ query = <<>> /\ textRes = <<>> /\ fileRes = NoFilePart
    /\ ScannerIdle /\ FetchIdle

\* one iteration of while (true) in extractAllMultipartFileParts
ScanStep ==
    /\ scanState = "SeekDelimiter"
    /\ \E it \in {scanIteration(body, boundary, searchFrom)} :
           IF it.exit # "none"
           THEN /\ scanState' = "Terminal"
                /\ UNCHANGED <<searchFrom, allParts>>
           ELSE /\ allParts' = IF it.push THEN Append(allParts, it.part) ELSE allParts
                /\ searchFrom' = it.contentEnd
                /\ UNCHANGED scanState
    /\ UNCHANGED <<probe, parts, shape, body, boundary, query, textRes, fileRes>>
    /\ UNCHANGED fetchVars

\* A, B and d/f
QueryNames == {NameA, NameB, <<100, SLASH, 102>>}

\* the caller asks for one field by name, as text and as a file
ExtractNamed(fieldName) ==
    /\ scanState = "Terminal"
    /\ query' = fieldName
    /\ textRes' = extractMultipartTextField(body, boundary, fieldName)
    /\ fileRes' = extractMultipartFilePart(body, boundary, fieldName)
    /\ UNCHANGED <<probe, parts, shape, body, boundary, scanState, searchFrom, allParts>>
    /\ UNCHANGED fetchVars

NextParse == ScanStep \/ \E f \in QueryNames : ExtractNamed(f)

SpecParse == InitParse /\ [][NextParse]_vars

FairParse == SpecParse /\ WF_vars(ScanStep)

\* ------------------------------------------------------------------------
\* What the sender meant: ground truth the extractors are compared with
\* ------------------------------------------------------------------------
Occurs(h, n, i) == i >= 0 /\ i + Len(n) <= Len(h) /\ SubSeq(h, i + 1, i + Len(n)) = n
OccursFrom(h, n, from) == \E i \in Max(0, from)..Len(h) : Occurs(h, n, i)

DistinctNames(ps) == \A i, j \in 1..Len(ps) : i # j => ps[i].name # ps[j].name

IsDecodingOf(t, u8) ==
    /\ Len(t) = Len(u8)
    /\ \A k \in 1..Len(u8) : t[k] = IF u8[k] < 128 THEN u8[k] ELSE REPLACEMENT

\* t is s without its leading and trailing white space
IsTrimOf(t, s) ==
    \E i \in 1..(Len(s) + 1) : \E j \in (i - 1)..Len(s) :
        /\ t = SubSeq(s, i, j)
        /\ \A k \in 1..(i - 1) : IsSpace(s[k])
        /\ \A k \in (j + 1)..Len(s) : IsSpace(s[k])
        /\ (i <= j => ~IsSpace(s[i]) /\ ~IsSpace(s[j]))

IsTextOf(t, u8) == \E d \in {dec(u8)} : IsDecodingOf(d, u8) /\ IsTrimOf(t, d)

\* b is the last "/"-separated segment of f
IsBasenameOf(b, f) ==
    /\ \A k \in 1..Len(b) : b[k] # SLASH
    /\ \E k \in 0..Len(f) : b = SubSeq(f, k + 1, Len(f)) /\ (k > 0 => f[k] = SLASH)

HasBasename(f) == f # <<>> /\ f[Len(f)] # SLASH

RECURSIVE PartOffsetIn(_, _, _)
PartOffsetIn(ps, i, b) ==
    IF i = 1 THEN 0 ELSE PartOffsetIn(ps, i - 1, b) + Len(PartBytes(ps[i - 1], b)) + 2

\* where the delimiter line of part i starts in body (0 for a part without one)
PartOffset(i) ==
    IF shape = "undelimited"
    THEN Max(0, PartOffsetIn(parts, i, boundary) - (Len(Delim(boundary)) + 2))
    ELSE PartOffsetIn(parts, i, boundary)

\* name="f" does not occur in the body before the delimiter line of part i
NoEarlierOccurrence(f, i) ==
    \A k \in 0..(PartOffset(i) - 1) : ~Occurs(body, HeaderNeedle(f), k)

\* the parts of the body that have a delimiter line and a complete header block
Visible(i) ==
    /\ i \in 1..Len(parts)
    /\ (shape = "headless" => i < Len(parts))
    /\ (shape = "undelimited" => i > 1)

\* the content of part i is closed by CRLF--boundary
Closed(i) == Visible(i) /\ (shape = "unterminated" => i < Len(parts))

\* the indices, in body order from i on, of the visible parts that carry a file name
RECURSIVE FileIdxFrom(_)
FileIdxFrom(i) ==
    IF i > Len(parts) THEN <<>>
    ELSE (IF Visible(i) /\ HasBasename(parts[i].filename) THEN <<i>> ELSE <<>>)
         \o FileIdxFrom(i + 1)

FileIdx == FileIdxFrom(1)

Extracted == scanState = "Terminal"
Queried == query # <<>>

\* ------------------------------------------------------------------------
\* C1 as stated: on a well-formed body of parts with distinct field names the
\* named extractors return each part's content and file name unchanged.
\* ------------------------------------------------------------------------
C1_AsStated ==
    (shape = "closed" /\ DistinctNames(parts) /\ Queried) =>
        \A i \in 1..Len(parts) : parts[i].name = query =>
            /\ fileRes = [found |-> TRUE, filename |-> parts[i].filename,
                          fileBytes |-> parts[i].content]
            /\ (parts[i].filename = <<>> => textRes = parts[i].content)

\* C1 amended: on a well-formed body of parts with distinct field names, for a
\* part before whose delimiter line name="<its field name>" does not occur,
\* extractMultipartFilePart returns the part's bytes unchanged with the last
\* "/"-segment of its file name, and extractMultipartTextField returns the
\* content decoded as UTF-8 without its leading and trailing white space.
C1_RoundTrip ==
    (shape = "closed" /\ DistinctNames(parts) /\ Queried) =>
        \A i \in 1..Len(parts) :
            (parts[i].name = query /\ NoEarlierOccurrence(query, i)) =>
                /\ fileRes.found
                /\ fileRes.fileBytes = parts[i].content
                /\ IsBasenameOf(fileRes.filename, parts[i].filename)
                /\ IsTextOf(textRes, parts[i].content)

\* the second of two parts, a file with boundary-like bytes, found by name
C1_Witness ==
    /\ shape = "closed" /\ DistinctNames(parts) /\ Len(parts) = 2
    /\ \E i \in {2} :
        /\ parts[i].name = query /\ NoEarlierOccurrence(query, i)
        /\ parts[i].content = BoundaryLikeContent
        /\ fileRes.found /\ fileRes.fileBytes = BoundaryLikeContent
        /\ fileRes.filename = parts[i].filename

\* ------------------------------------------------------------------------
\* C2 as stated: extractAllMultipartFileParts returns exactly the parts that
\* declare a non-empty file name (read as: a non-empty last "/"-segment), in
\* body order, and the content of a part without a file name is still
\* returned (decoded and trimmed) by extractMultipartTextField on its field name.
\* ------------------------------------------------------------------------
C2_AsStated ==
    (shape = "closed" /\ DistinctNames(parts) /\ Extracted) =>
        /\ Len(allParts) = Len(FileIdx)
        /\ \A k \in 1..Len(allParts) :
            /\ allParts[k].filename # <<>>
            /\ allParts[k].fileBytes = parts[FileIdx[k]].content
        /\ Queried =>
            \A i \in 1..Len(parts) :
                (parts[i].name = query /\ parts[i].filename = <<>>) =>
                    IsTextOf(textRes, parts[i].content)

\* C2 amended: for a body of well-formed parts, closed or cut off,
\* extractAllMultipartFileParts returns exactly the parts that have a delimiter
\* line, a complete header block and a file name whose last "/"-segment is not
\* empty, in body order, each with that segment as file name and with its
\* bytes (and with its field name when the name attribute comes first); a part
\* without a file name is left out, and extractMultipartTextField on its field
\* name returns its decoded, trimmed content when the content is closed by
\* CRLF--boundary and name="<field>" does not occur before its delimiter line.
C2_FilePartsInOrder ==
    Extracted =>
        /\ Len(allParts) = Len(FileIdx)
        /\ \A k \in 1..Len(allParts) :
            LET p == parts[FileIdx[k]]
            IN  /\ allParts[k].filename # <<>>
                /\ IsBasenameOf(allParts[k].filename, p.filename)
                /\ allParts[k].fileBytes = p.content
                /\ (p.nameFirst => allParts[k].fieldName = p.name)
        /\ Queried =>
            \A i \in 1..Len(parts) :
                (/\ Closed(i) /\ parts[i].name = query /\ parts[i].filename = <<>>
                 /\ NoEarlierOccurrence(query, i)) =>
                    IsTextOf(textRes, parts[i].content)

\* a text part between two file parts: both files returned, the text part by name
C2_Witness ==
    /\ Extracted /\ Len(parts) = 2 /\ Len(allParts) = 1
    /\ parts[1].filename = <<>> /\ parts[1].name = query
    /\ textRes # <<>> /\ textRes # parts[1].content
    /\ allParts[1].fileBytes = parts[2].content

\* ------------------------------------------------------------------------
\* C3 as stated: when no CRLF--boundary follows the content of the last part
\* (a file part), extractMultipartFilePart on its field name returns null while
\* extractAllMultipartFileParts returns it with the rest of the buffer.
\* ------------------------------------------------------------------------
LastPart == parts[Len(parts)]

C3_AsStated ==
    (/\ shape = "unterminated" /\ DistinctNames(parts) /\ Extracted /\ Queried
     /\ query = LastPart.name /\ HasBasename(LastPart.filename)) =>
        /\ fileRes = NoFilePart
        /\ allParts # <<>>
        /\ allParts[Len(allParts)].fileBytes = LastPart.content

\* C3 amended: the same for a last part before whose delimiter line
\* name="<field>" does not occur in the body.
C3_Asymmetry ==
    (/\ shape = "unterminated" /\ Extracted /\ Queried
     /\ query = LastPart.name /\ HasBasename(LastPart.filename)
     /\ NoEarlierOccurrence(query, Len(parts))) =>
        /\ fileRes = NoFilePart
        /\ allParts # <<>>
        /\ allParts[Len(allParts)].fileBytes = LastPart.content
        /\ ~OccursFrom(body, NextBoundaryNeedle(boundary),
                       Len(body) - Len(LastPart.content))

C3_Witness ==
    /\ shape = "unterminated" /\ Extracted /\ Len(parts) = 2
    /\ query = LastPart.name /\ HasBasename(LastPart.filename)
    /\ NoEarlierOccurrence(query, Len(parts))
    /\ fileRes = NoFilePart
    /\ Len(allParts) = 2 /\ allParts[2].fileBytes = LastPart.content

\* ------------------------------------------------------------------------
\* C4: whenever a location step of a named extractor fails (no name="<field>",
\* no --boundary at or before it, no CRLF CRLF after the delimiter, no
\* CRLF--boundary after the content start), extractMultipartTextField returns
\* the empty string and extractMultipartFilePart returns null; nothing is raised.
\* ------------------------------------------------------------------------
FirstAt(h, n, from) == CHOOSE i \in Max(0, from)..Len(h) :
    Occurs(h, n, i) /\ \A k \in Max(0, from)..(i - 1) : ~Occurs(h, n, k)
LastAt(h, n, before) == CHOOSE i \in 0..before :
    Occurs(h, n, i) /\ \A k \in (i + 1)..before : ~Occurs(h, n, k)

NoName(f) == ~OccursFrom(body, HeaderNeedle(f), 0)
NamePos(f) == FirstAt(body, HeaderNeedle(f), 0)
NoEnclosingBoundary(f) ==
    ~\E i \in 0..NamePos(f) : Occurs(body, Delim(boundary), i)
HeadersStart(f) ==
    LET after == LastAt(body, Delim(boundary), NamePos(f)) + Len(Delim(boundary))
    IN  IF Occurs(body, CRLF, after) THEN after + 2 ELSE after
NoHeaderTerminator(f) == ~OccursFrom(body, HeaderEndMarker, HeadersStart(f))
ContentStart(f) == FirstAt(body, HeaderEndMarker, HeadersStart(f)) + 4
NoNextBoundary(f) == ~OccursFrom(body, NextBoundaryNeedle(boundary), ContentStart(f))

LocationFails(f) ==
    \/ NoName(f)
    \/ NoEnclosingBoundary(f)
    \/ NoHeaderTerminator(f)
    \/ NoNextBoundary(f)

C4_AbsenceOnFailure ==
    /\ fileRes.found \in BOOLEAN
    /\ textRes \in Seq(0..REPLACEMENT)
    /\ (Queried /\ LocationFails(query)) => (textRes = <<>> /\ fileRes = NoFilePart)

\* the name and its header are found, the closing boundary is not
C4_Witness ==
    /\ Queried /\ ~NoName(query) /\ ~NoEnclosingBoundary(query)
    /\ ~NoHeaderTerminator(query) /\ NoNextBoundary(query)
    /\ textRes = <<>> /\ fileRes = NoFilePart

\* ------------------------------------------------------------------------
\* C7: extractAllMultipartFileParts terminates; in each iteration
\* partStart < headersStart <= headersEnd < contentStart <= contentEnd <= length
\* and searchFrom strictly increases; the scan is terminal once the delimiter
\* is followed by "--" or no further delimiter is found.
\* ------------------------------------------------------------------------
NoFurtherDelimiter == ~OccursFrom(body, Delim(boundary), searchFrom)
ClosingMarkerNext ==
    /\ ~NoFurtherDelimiter
    /\ Occurs(body, <<DASH, DASH>>,
              FirstAt(body, Delim(boundary), searchFrom) + Len(Delim(boundary)))

ScanProgress ==
    scanState = "SeekDelimiter" =>
        LET it == scanIteration(body, boundary, searchFrom)
        IN  /\ (NoFurtherDelimiter \/ ClosingMarkerNext) => scanState' = "Terminal"
            /\ scanState' = "SeekDelimiter" =>
                /\ searchFrom <= it.partStart
                /\ it.partStart < it.headersStart
                /\ it.headersStart <= it.headersEnd
                /\ it.headersEnd < it.contentStart
                /\ it.contentStart <= it.contentEnd
                /\ it.contentEnd <= Len(body)
                /\ searchFrom' = it.contentEnd
                /\ searchFrom' > searchFrom

C7_ScanTerminates == [][ScanProgress]_vars /\ <>(scanState = "Terminal")

C7_Witness == scanState = "Terminal" /\ searchFrom > 0 /\ Len(parts) = 2 /\ Len(allParts) = 2

\* ------------------------------------------------------------------------
\* C10 as stated: on a well-formed body of parts with distinct field names
\* whose contents hold neither --boundary nor name=", extractMultipartFilePart
\* on the field name of an entry of extractAllMultipartFileParts returns the
\* entry's file name and bytes, whatever the file names and the attribute order.
\* ------------------------------------------------------------------------
PlainContents ==
    \A i \in 1..Len(parts) :
        /\ ~OccursFrom(parts[i].content, Delim(boundary), 0)
        /\ ~OccursFrom(parts[i].content, NameAttr, 0)

C10_AsStated ==
    (/\ shape = "closed" /\ DistinctNames(parts) /\ PlainContents
     /\ Extracted /\ Queried) =>
        \A k \in 1..Len(allParts) : allParts[k].fieldName = query =>
            /\ fileRes.found
            /\ fileRes.filename = allParts[k].filename
            /\ fileRes.fileBytes = allParts[k].fileBytes

\* C10 amended: the two paths agree on an entry when name="<the entry's field
\* name>" does not occur in the body before the delimiter line of the entry's part.
C10_PathsAgree ==
    (/\ shape = "closed" /\ DistinctNames(parts) /\ PlainContents
     /\ Extracted /\ Queried) =>
        \A k \in 1..Min(Len(allParts), Len(FileIdx)) :
            (allParts[k].fieldName = query /\ NoEarlierOccurrence(query, FileIdx[k])) =>
                /\ fileRes.found
                /\ fileRes.filename = allParts[k].filename
                /\ fileRes.fileBytes = allParts[k].fileBytes

\* the second file part, with the file name before the name attribute
C10_Witness ==
    /\ shape = "closed" /\ DistinctNames(parts) /\ PlainContents
    /\ Len(allParts) = 2 /\ allParts[2].fieldName = query
    /\ ~parts[2].nameFirst
    /\ NoEarlierOccurrence(query, 2)
    /\ fileRes.found /\ fileRes.fileBytes = parts[2].content

\* ------------------------------------------------------------------------
\* Specification of the ByteScanner
\* ------------------------------------------------------------------------
RECURSIVE SeqsUpTo(_, _)
SeqsUpTo(S, n) ==
    IF n = 0 THEN {<<>>}
    ELSE SeqsUpTo(S, n - 1) \cup {Append(q, x) : q \in SeqsUpTo(S, n - 1), x \in S}

ScanBytes == {0, 1}
Haystacks == SeqsUpTo(ScanBytes, MaxHay)
\* every needle the source builds is a non-empty template (name="..."), --..., CRLF CRLF)
Needles == SeqsUpTo(ScanBytes, MaxNeedle) \ {<<>>}
Indexes == (-2)..(MaxHay + 2)

InitScan ==
    /\ probe \in [op : {"none"}, haystack : Haystacks, needle : Needles,
                  index : Indexes, result : {-1}]
    /\ body = <<>> /\ boundary = <<>> /\ allParts = <<>>
    /\ ParserIdle /\ FetchIdle

ForwardFind ==
    /\ probe.op = "none"
    /\ probe' = [probe EXCEPT !.op = "indexOfSubarray",
                   !.result = indexOfSubarray(probe.haystack, probe.needle, probe.index)]
    /\ UNCHANGED <<body, boundary, allParts>>
    /\ UNCHANGED parserVars /\ UNCHANGED fetchVars

BackwardFind ==
    /\ probe.op = "none"
    /\ probe' = [probe EXCEPT !.op = "lastIndexOfSubarray",
                   !.result = lastIndexOfSubarray(probe.haystack, probe.needle, probe.index)]
    /\ UNCHANGED <<body, boundary, allParts>>
    /\ UNCHANGED parserVars /\ UNCHANGED fetchVars

NextScan == ForwardFind \/ BackwardFind

SpecScan == InitScan /\ [][NextScan]_vars

successAck == [status |-> 200, body |-> "SUCCESS - OK\r\n"]
text(msg, status) == [status |-> status, body |-> msg]

\* a || b on strings and null: the first operand unless it is null or empty
Or(a, b) == IF a # <<>> THEN a ELSE b

\* every method taken for an upload
isUploadMethod_always(method) == TRUE

\* !(request.method !== "POST" && request.method !== "PUT")
isUploadMethod(method) == method = "POST" \/ method = "PUT"

\* only !provided
forbidden_presenceOnly(provided, apiKey) == provided = <<>>

\* !provided || provided !== env.API_KEY
forbidden(provided, apiKey) == provided = <<>> \/ provided # apiKey

\* atob(): forgiving base64
B64Val(c) ==
    IF c >= 65 /\ c <= 90 THEN c - 65
    ELSE IF c >= 97 /\ c <= 122 THEN c - 71
    ELSE IF c >= 48 /\ c <= 57 THEN c + 4
    ELSE IF c = 43 THEN 62
    ELSE IF c = SLASH THEN 63
    ELSE -1

IsB64Space(c) == c \in {9, 10, 12, 13, 32}

B64Unpad(s) ==
    IF Len(s) % 4 = 0 /\ Len(s) >= 2 /\ s[Len(s)] = 61 /\ s[Len(s) - 1] = 61
    THEN SubSeq(s, 1, Len(s) - 2)
    ELSE IF Len(s) % 4 = 0 /\ Len(s) >= 1 /\ s[Len(s)] = 61
    THEN SubSeq(s, 1, Len(s) - 1)
    ELSE s

RECURSIVE B64Groups(_)
B64Groups(s) ==
    IF Len(s) < 2 THEN <<>>
    ELSE IF Len(s) = 2
    THEN <<(B64Val(s[1]) * 64 + B64Val(s[2])) \div 16>>
    ELSE IF Len(s) = 3
    THEN With((B64Val(s[1]) * 4096 + B64Val(s[2]) * 64 + B64Val(s[3])) \div 4,
              LAMBDA n : <<n \div 256, n % 256>>)
    ELSE With(B64Val(s[1]) * 262144 + B64Val(s[2]) * 4096 + B64Val(s[3]) * 64 + B64Val(s[4]),
              LAMBDA n : <<n \div 65536, (n \div 256) % 256, n % 256>>)
         \o B64Groups(SubSeq(s, 5, Len(s)))

\* [ok |-> FALSE] is the exception atob throws
atob(s) ==
    With(B64Unpad(SelectSeq(s, LAMBDA c : ~IsB64Space(c))), LAMBDA data :
    IF Len(data) % 4 = 1 \/ \E k \in 1..Len(data) : B64Val(data[k]) = -1
    THEN [ok |-> FALSE, value |-> <<>>]
    ELSE [ok |-> TRUE, value |-> B64Groups(data)])

IsLineTerminator(c) == c \in {10, 13, 8232, 8233}

RECURSIVE skipSpaces(_, _)
skipSpaces(s, i) == IF IsSpace(At(s, i)) THEN skipSpaces(s, i + 1) ELSE i

\* basic
BasicWord == <<98, 97, 115, 105, 99>>

\* authHeader.match(/^Basic\s+(.+)$/i): the capture, or <<>> for no match
basicCredentials(authHeader) ==
    IF ~AttrAt(authHeader, BasicWord, 0) THEN <<>>
    ELSE With(skipSpaces(authHeader, Len(BasicWord)), LAMBDA rest :
         With(IF rest < Len(authHeader) THEN rest ELSE rest - 1, LAMBDA start :
         IF rest = Len(BasicWord) \/ start = Len(BasicWord) THEN <<>>
         ELSE IF \E k \in (start + 1)..Len(authHeader) : IsLineTerminator(authHeader[k])
         THEN <<>>
         ELSE Slice(authHeader, start, Len(authHeader))))

extractBasicAuthPassword(authHeader) ==
    IF authHeader = <<>> THEN <<>>
    ELSE With(basicCredentials(authHeader), LAMBDA m :
         IF m = <<>> THEN <<>>
         ELSE With(atob(m), LAMBDA decoded :
              IF ~decoded.ok THEN <<>>
              ELSE With(indexOfSubarray(decoded.value, <<COLON>>, 0), LAMBDA idx :
                   IF idx = -1 THEN <<>>
                   ELSE Slice(decoded.value, idx + 1, Len(decoded.value)))))

\* multipart/form-data  and  boundary=
MultipartWord == <<109, 117, 108, 116, 105, 112, 97, 114, 116, 47, 102, 111, 114, 109, 45, 100, 97, 116, 97>>
BoundaryAttr == <<98, 111, 117, 110, 100, 97, 114, 121, 61>>

\* /boundary=([^\s;]+)/i: the capture, or <<>> for no match
RECURSIVE tokenEnd(_, _)
tokenEnd(s, i) ==
    IF i >= Len(s) \/ IsSpace(At(s, i)) \/ At(s, i) = 59 THEN i ELSE tokenEnd(s, i + 1)

RECURSIVE boundaryParamFrom(_, _)
boundaryParamFrom(ct, p) ==
    IF p > Len(ct) - Len(BoundaryAttr) THEN <<>>
    ELSE IF AttrAt(ct, BoundaryAttr, p) /\ tokenEnd(ct, p + Len(BoundaryAttr)) > p + Len(BoundaryAttr)
         THEN Slice(ct, p + Len(BoundaryAttr), tokenEnd(ct, p + Len(BoundaryAttr)))
         ELSE boundaryParamFrom(ct, p + 1)

boundaryParam(ct) == boundaryParamFrom(ct, 0)

\* the stand-ins for new Date() and Date.now()
Today == "yyyy/mm/dd"
NowMillis == <<49>>

\* unknown_serial, acq_, .log.gz, logfile, .bin, part
UnknownSerial == <<117, 110, 107, 110, 111, 119, 110, 95, 115, 101, 114, 105, 97, 108>>
AcqPrefix == <<97, 99, 113, 95>>
LogGzSuffix == <<46, 108, 111, 103, 46, 103, 122>>
LogfileWord == <<108, 111, 103, 102, 105, 108, 101>>
BinSuffix == <<46, 98, 105, 110>>
PartWord == <<112, 97, 114, 116>>
LOGFILE == <<76, 79, 71, 70, 73, 76, 69>>
SERIALNUMBER == <<83, 69, 82, 73, 65, 76, 78, 85, 77, 66, 69, 82>>
FILETIME == <<70, 73, 76, 69, 84, 73, 77, 69>>
LOOPNAME == <<76, 79, 79, 80, 78, 65, 77, 69>>

primaryPut(part, m) ==
    [prefix |-> "log-gz", serial |-> safeKey(m.serial), date |-> Today,
     name |-> safeKey(Or(part.filename, AcqPrefix \o NowMillis \o LogGzSuffix)),
     bytes |-> part.fileBytes, contentType |-> "application/gzip",
     fieldName |-> <<>>, originalFilename |-> <<>>, meta |-> m]

\* filePart && (part.fieldName || "").toLowerCase() === "logfile"
\*          && part.filename === (filePart.filename || "")
isPrimaryAgain(fp, part) ==
    fp.found /\ toLowerCase(part.fieldName) = LogfileWord /\ part.filename = fp.filename

otherPut(part, m) ==
    [prefix |-> IF isStatusPart(part) THEN "status" ELSE "other",
     serial |-> safeKey(m.serial), date |-> Today,
     name |-> safeKey(Or(part.filename, Or(part.fieldName, PartWord) \o BinSuffix)),
     bytes |-> part.fileBytes,
     contentType |-> IF part.filename # <<>> /\ endsWith(toLowerCase(part.filename), DotTxt)
                     THEN "text/plain" ELSE "application/octet-stream",
     fieldName |-> part.fieldName, originalFilename |-> part.filename, meta |-> m]

\* ------------------------------------------------------------------------
\* Requests
\* ------------------------------------------------------------------------
GoodKey == <<107>>
BadKey == <<120>>
KeyValues == {<<>>, GoodKey, BadKey}
Methods == {"GET", "POST", "PUT"}
\* none; Basic dTpr (u:k); basic  dTp4 (u:x); Basic dWs= (uk); Basic d (not base64); Bearer k
AuthHeaders == {<<>>, <<66, 97, 115, 105, 99, 32, 100, 84, 112, 114>>,
                <<98, 97, 115, 105, 99, 32, 32, 100, 84, 112, 52>>,
                <<66, 97, 115, 105, 99, 32, 100, 87, 115, 61>>, <<66, 97, 115, 105, 99, 32, 100>>,
                <<66, 101, 97, 114, 101, 114, 32, 107>>}
\* none; text/plain; multipart/form-data; multipart/form-data; boundary=b7;
\* Multipart/Form-Data; Boundary=b7
ContentTypes == {<<>>, <<116, 101, 120, 116, 47, 112, 108, 97, 105, 110>>,
                 MultipartWord,
                 MultipartWord \o <<59, 32>> \o BoundaryAttr \o Boundary,
                 <<77, 117, 108, 116, 105, 112, 97, 114, 116, 47, 70, 111, 114, 109, 45, 68, 97, 116, 97, 59, 32, 66, 111, 117, 110, 100, 97, 114, 121, 61>> \o Boundary}

Requests == [method : Methods, key : KeyValues, password : KeyValues,
             xApiKey : KeyValues, authorization : AuthHeaders, contentType : ContentTypes]

\* the sender's upload parts; every part has bytes of its own
UploadPart(n, f, c) == [name |-> n, filename |-> f, content |-> c, nameFirst |-> TRUE]
\* a.gz, s.txt, STATUS, logfile
AGz == <<97, 46, 103, 122>>
UploadOptions ==
    {UploadPart(LOGFILE, AGz, <<31, 139, 1>>),
     UploadPart(LOGFILE, AGz, <<31, 139, 2>>),
     UploadPart(LOGFILE, <<>>, <<31, 139, 3>>),
     UploadPart(LogfileWord, AGz, <<31, 139, 4>>),
     UploadPart(<<83, 84, 65, 84, 85, 83>>, <<115, 46, 116, 120, 116>>, <<111, 107>>),
     UploadPart(SERIALNUMBER, <<>>, <<32, 49, 50>>)}

UploadSeqs ==
    {ps \in UNION {[1..n -> UploadOptions] : n \in 1..MaxUploadParts} :
        \A i, j \in 1..Len(ps) : i # j => ps[i] # ps[j]}
UploadShapes == {"closed", "unterminated"}

\* ------------------------------------------------------------------------
\* Specification of the fetch handler
\* ------------------------------------------------------------------------
InitFetch ==
    /\ env \in [API_KEY : {<<>>, GoodKey}, BUCKET : BOOLEAN]
    /\ request = NoRequest /\ pc = "idle" /\ filePart = NoFilePart
    /\ cursor = 0 /\ meta = NoMeta /\ puts = <<>> /\ response = NoResponse
    /\ body = <<>> /\ boundary = <<>> /\ allParts = <<>>
    /\ ScannerIdle /\ ParserIdle

Respond(r) ==
    /\ response' = r
    /\ pc' = "done"

\* lines 7-38: from the method test to the boundary parameter
Fetch(req) ==
    /\ pc = "idle"
    /\ \E provided \in {Or(req.key, Or(req.password, Or(req.xApiKey,
                            extractBasicAuthPassword(req.authorization))))} :
       \E ct \in {req.contentType} :
        /\ request' = [method |-> req.method,
                       supplied |-> {req.key, req.password, req.xApiKey,
                                     extractBasicAuthPassword(req.authorization)} \ {<<>>},
                       provided |-> IF isUploadMethod(req.method) THEN provided ELSE <<>>,
                       contentType |-> ct]
        /\ IF ~isUploadMethod(req.method) THEN Respond(successAck) /\ UNCHANGED boundary
           ELSE IF env.API_KEY = <<>>
                THEN Respond(text("MISSING_API_KEY", 500)) /\ UNCHANGED boundary
           ELSE IF forbidden(provided, env.API_KEY)
                THEN Respond(text("FORBIDDEN", 403)) /\ UNCHANGED boundary
           ELSE IF ~env.BUCKET
                THEN Respond(text("MISSING_R2_BINDING", 500)) /\ UNCHANGED boundary
           ELSE IF ~includes(toLowerCase(ct), MultipartWord)
                THEN Respond(successAck) /\ UNCHANGED boundary
           ELSE IF boundaryParam(ct) = <<>>
                THEN Respond(successAck) /\ UNCHANGED boundary
           ELSE /\ boundary' = boundaryParam(ct)
                /\ pc' = "readBody"
                /\ UNCHANGED response
    /\ UNCHANGED <<body, allParts, env, filePart, cursor, meta, puts>>
    /\ UNCHANGED scannerVars /\ UNCHANGED parserVars

\* lines 41-62: the body arrives and is searched
ReadBody(b) ==
    /\ pc = "readBody"
    /\ body' = b
    /\ \E fp \in {extractMultipartFilePart(b, boundary, LOGFILE)} :
       \E all \in {extractAllMultipartFileParts(b, boundary)} :
        /\ filePart' = fp
        /\ allParts' = all
        /\ IF ~fp.found /\ Len(all) = 0
           THEN /\ Respond(successAck)
                /\ UNCHANGED <<meta, cursor>>
           ELSE /\ meta' = [serial |-> Or(extractMultipartTextField(b, boundary, SERIALNUMBER),
                                          UnknownSerial),
                            filetime |-> extractMultipartTextField(b, boundary, FILETIME),
                            loopname |-> extractMultipartTextField(b, boundary, LOOPNAME)]
                /\ cursor' = 1
                /\ pc' = IF fp.found THEN "putPrimary" ELSE "loop"
                /\ UNCHANGED response
    /\ UNCHANGED <<boundary, env, request, puts>>
    /\ UNCHANGED scannerVars /\ UNCHANGED parserVars

\* lines 65-72
PutPrimary ==
    /\ pc = "putPrimary"
    /\ puts' = Append(puts, primaryPut(filePart, meta))
    /\ pc' = "loop"
    /\ UNCHANGED <<body, boundary, allParts, env, request, filePart, cursor, meta, response>>
    /\ UNCHANGED scannerVars /\ UNCHANGED parserVars

\* lines 75-87: one iteration of for (const part of allParts)
LoopStep ==
    /\ pc = "loop"
    /\ cursor <= Len(allParts)
    /\ puts' = IF isPrimaryAgain(filePart, allParts[cursor]) THEN puts
               ELSE Append(puts, otherPut(allParts[cursor], meta))
    /\ cursor' = cursor + 1
    /\ UNCHANGED <<body, boundary, allParts, env, request, pc, filePart, meta, response>>
    /\ UNCHANGED scannerVars /\ UNCHANGED parserVars

\* line 89
Return ==
    /\ pc = "loop"
    /\ cursor > Len(allParts)
    /\ Respond(successAck)
    /\ UNCHANGED <<body, boundary, allParts, env, request, filePart, cursor, meta, puts>>
    /\ UNCHANGED scannerVars /\ UNCHANGED parserVars

NextFetch ==
    \/ \E req \in Requests : Fetch(req)
    \/ \E ps \in UploadSeqs, sh \in UploadShapes : ReadBody(BuildBody(ps, sh, Boundary))
    \/ PutPrimary
    \/ LoopStep
    \/ Return

SpecFetch == InitFetch /\ [][NextFetch]_vars

\* the runtime runs the handler to its return
FairFetch == SpecFetch /\ WF_vars(NextFetch)

\* ------------------------------------------------------------------------
\* C5: a request that supplies no key equal to API_KEY never reaches the body,
\* the extractors or BUCKET.put; a POST or PUT whose key is missing or differs
\* from a configured API_KEY is answered 403 FORBIDDEN with the bucket untouched.
\* ------------------------------------------------------------------------
Untouched == puts = <<>> /\ body = <<>> /\ allParts = <<>> /\ filePart = NoFilePart

C5_NoPutWithoutKey ==
    /\ (pc # "idle" /\ env.API_KEY \notin request.supplied) => (Untouched /\ pc = "done")
    /\ (/\ pc # "idle" /\ request.method \in {"POST", "PUT"}
        /\ env.API_KEY # <<>> /\ request.provided # env.API_KEY) =>
            /\ Untouched /\ pc = "done"
            /\ response = [status |-> 403, body |-> "FORBIDDEN"]

\* an upload with only a wrong key, the bucket being bound
C5_Witness ==
    /\ pc = "done" /\ request.method = "POST" /\ request.supplied = {BadKey}
    /\ env.BUCKET /\ env.API_KEY = GoodKey
    /\ response.status = 403 /\ puts = <<>>

\* ------------------------------------------------------------------------
\* C6: the handler returns; a method other than POST and PUT is answered
\* 200 "SUCCESS - OK" at once and without a key check, and so is every POST or
\* PUT whose key is API_KEY when BUCKET is bound, whatever the content type,
\* the boundary parameter and the outcome of the extraction.
\* ------------------------------------------------------------------------
Acked == response = [status |-> 200, body |-> "SUCCESS - OK\r\n"]
KeyAccepted == env.API_KEY # <<>> /\ request.provided = env.API_KEY /\ env.BUCKET

C6_Answer ==
    (pc = "done" /\ (request.method \notin {"POST", "PUT"} \/ KeyAccepted)) => Acked

C6_PingAtOnce ==
    (pc = "idle" /\ request'.method \notin {"POST", "PUT"}) => (pc' = "done" /\ Untouched')

PutsOf(bytes) == {k \in 1..Len(puts) : puts[k].bytes = bytes}

C9_AsStated ==
    (pc = "done" /\ filePart.found) =>
        /\ PutsOf(filePart.fileBytes) = {1}
        /\ puts[1].prefix = "log-gz"
        /\ \A j \in 1..Len(allParts) :
            allParts[j].fileBytes # filePart.fileBytes =>
                \E k \in 2..Len(puts) :
                    /\ PutsOf(allParts[j].fileBytes) = {k}
                    /\ puts[k].prefix \in {"status", "other"}

====
